---- MODULE Spec2Model ----
(***************************************************************************)
(* Model of src/extension.js: the SortOrderManager (order table, load,     *)
(* save), FileSystemProvider.getChildren (merge of the stored order with   *)
(* the live listing) and FileDragAndDropController.handleDrop, together    *)
(* with the newFile / newFolder / paste commands and the file watcher.     *)
(*                                                                         *)
(* A URI is the sequence of path segments below the workspace root: the    *)
(* root is <<>>, the directory lib is <<"lib">>, the file lib/a.ts is      *)
(* <<"lib", "a.ts">>.  JavaScript arrays are sequences; JavaScript indices *)
(* are 0-based, so the element at index i of an array s is s[i + 1].       *)
(* Every action is one synchronous run of a handler between two awaits.    *)
(***************************************************************************)
EXTENDS Integers, Sequences, FiniteSets, TLC

\* ------------------------------------------------------------------ bounds
MaxOps == 2          \* user commands and external changes in one behaviour
MaxSources == 2      \* dragged entries in one payload of SpecDrop
SysSources == 1      \* dragged entries in one payload of Spec
MaxStored == 4       \* length of a stored order in an initial table
MergeStored == 3     \* length of a stored order in SpecMerge
MaxInits == 1        \* watcher-triggered reloads in flight at once

\* ------------------------------------------------------- names and paths
File == 1            \* vscode.FileType.File
Directory == 2       \* vscode.FileType.Directory

Files == {"a.ts", "m.ts", "z.ts"}
Copies == {"a copy 1.ts"}      \* the names paste gives a copy
LibName == "lib"
VscodeName == ".vscode"
RootUri == << >>
LibUri == <<LibName>>
VscodeUri == <<VscodeName>>
Dirs == {RootUri, LibUri}

\* the names getChildren hides
ReservedNames == {"node_modules", ".git", ".DS_Store", ".vscode"}

\* every path the model's file system can hold
AllPaths == {<<f>> : f \in Files \cup Copies}
              \cup {<<LibName, f>> : f \in Files \cup Copies}
              \cup {LibUri, VscodeUri}
AllNames == Files \cup Copies \cup {LibName, VscodeName}

\* path.dirname / path.basename / Uri.joinPath
dirname(p) == SubSeq(p, 1, Len(p) - 1)
basename(p) == p[Len(p)]
joinPath(dir, name) == Append(dir, name)

\* the type readDirectory reports for a path
FileTypeOf(p) == IF p \in {LibUri, VscodeUri} THEN Directory ELSE File

\* path.relative(root, folder), '' -> '.', separators -> '/'
RelativeKey(folderUri) == IF folderUri = RootUri THEN "." ELSE folderUri[1]

\* ---------------------------------------------------------------- arrays
\* Array.prototype.indexOf: 0-based index of the first occurrence, or -1
IndexOf(s, x) ==
  IF \E k \in 1..Len(s) : s[k] = x
    THEN (CHOOSE k \in 1..Len(s) : s[k] = x /\ \A j \in 1..(k - 1) : s[j] # x) - 1
    ELSE -1

Includes(s, x) == \E k \in 1..Len(s) : s[k] = x

\* s.splice(i, 1) for 0 <= i < length
SpliceRemove(s, i) == SubSeq(s, 1, i) \o SubSeq(s, i + 2, Len(s))

\* s.splice(i, 0, x) for i >= 0: an index past the end is clamped to the end
SpliceInsert(s, i, x) ==
  LET at == IF i > Len(s) THEN Len(s) ELSE i
  IN  SubSeq(s, 1, at) \o <<x>> \o SubSeq(s, at + 1, Len(s))

Range(s) == {s[k] : k \in 1..Len(s)}
NoDup(s) == \A i, j \in 1..Len(s) : s[i] = s[j] => i = j

\* all sequences without repetition over a set: the orders readDirectory
\* may list a directory in
RECURSIVE PermsOf(_)
PermsOf(S) ==
  IF S = {} THEN {<< >>}
  ELSE UNION {{<<x>> \o p : p \in PermsOf(S \ {x})} : x \in S}

\* ------------------------------------------------- table and persistence
\* the order table: a function from directory keys to arrays of names
EmptyTable == [k \in {} |-> << >>]
TableSet(t, key, val) ==
  [k \in (DOMAIN t) \cup {key} |-> IF k = key THEN val ELSE t[k]]

\* the order JSON.stringify lists the keys in
KeyOrder == <<".", "lib">>

\* the text of the order file: a sequence of JSON tokens
Punct(c) == [t |-> "p", v |-> c]
Str(s) == [t |-> "s", v |-> s]

RECURSIVE StringifyNames(_)
StringifyNames(s) ==
  IF s = << >> THEN << >>
  ELSE IF Len(s) = 1 THEN <<Str(s[1])>>
  ELSE <<Str(s[1]), Punct(",")>> \o StringifyNames(Tail(s))

StringifyArray(s) == <<Punct("[")>> \o StringifyNames(s) \o <<Punct("]")>>

RECURSIVE StringifyMembers(_, _)
StringifyMembers(t, keys) ==
  IF keys = << >> THEN << >>
  ELSE LET rest == StringifyMembers(t, Tail(keys))
           k == Head(keys)
       IN  IF k \notin DOMAIN t THEN rest
           ELSE <<Str(k), Punct(":")>> \o StringifyArray(t[k])
                  \o (IF rest = << >> THEN << >> ELSE <<Punct(",")>> \o rest)

\* a serialization that writes the order of the root folder only
JSONstringify_RootOnly(t) ==
  <<Punct("{")>> \o StringifyMembers(t, <<".">>) \o <<Punct("}")>>

\* JSON.stringify(this.orderCache, null, 2)
JSONstringify(t) ==
  <<Punct("{")>> \o StringifyMembers(t, KeyOrder) \o <<Punct("}")>>

ParseFail == [ok |-> FALSE, val |-> << >>, next |-> 0]

RECURSIVE ParseNames(_, _, _)
ParseNames(toks, i, acc) ==
  IF i + 1 > Len(toks) \/ toks[i].t # "s" THEN ParseFail
  ELSE IF toks[i + 1] = Punct(",")
         THEN ParseNames(toks, i + 2, Append(acc, toks[i].v))
  ELSE IF toks[i + 1] = Punct("]")
         THEN [ok |-> TRUE, val |-> Append(acc, toks[i].v), next |-> i + 2]
  ELSE ParseFail

ParseArray(toks, i) ==
  IF i + 1 > Len(toks) \/ toks[i] # Punct("[") THEN ParseFail
  ELSE IF toks[i + 1] = Punct("]")
         THEN [ok |-> TRUE, val |-> << >>, next |-> i + 2]
  ELSE ParseNames(toks, i + 1, << >>)

TableFail == [ok |-> FALSE, val |-> EmptyTable]

RECURSIVE ParseMembers(_, _, _)
ParseMembers(toks, i, acc) ==
  IF i + 1 > Len(toks) \/ toks[i].t # "s" \/ toks[i + 1] # Punct(":")
    THEN TableFail
  ELSE LET a == ParseArray(toks, i + 2)
       IN  IF ~a.ok \/ a.next > Len(toks) THEN TableFail
           ELSE LET acc2 == TableSet(acc, toks[i].v, a.val)
                IN  IF toks[a.next] = Punct(",")
                      THEN ParseMembers(toks, a.next + 1, acc2)
                    ELSE IF toks[a.next] = Punct("}") /\ a.next = Len(toks)
                      THEN [ok |-> TRUE, val |-> acc2]
                    ELSE TableFail

\* JSON.parse(text): ok = FALSE stands for the SyntaxError it throws
JSONparse(toks) ==
  IF Len(toks) < 2 \/ toks[1] # Punct("{") THEN TableFail
  ELSE IF Len(toks) = 2 /\ toks[2] = Punct("}")
         THEN [ok |-> TRUE, val |-> EmptyTable]
  ELSE ParseMembers(toks, 2, EmptyTable)

\* ------------------------------------------------------------- the merge
\* the collation order localeCompare gives the model's names
CollationRank(n) ==
  CASE n = ".vscode" -> 0
    [] n = "a copy 1.ts" -> 1
    [] n = "a.ts" -> 2
    [] n = "lib" -> 3
    [] n = "m.ts" -> 4
    [] n = "z.ts" -> 5

localeCompare(a, b) ==
  IF CollationRank(a) < CollationRank(b) THEN -1
  ELSE IF CollationRank(a) > CollationRank(b) THEN 1 ELSE 0

\* the comparator without rule 4's folders-first: names only
SortCompare_NamesOnly(order, a, b) ==
  LET indexA == IndexOf(order, a[1])
      indexB == IndexOf(order, b[1])
  IN  IF indexA # -1 /\ indexB # -1 THEN indexA - indexB
      ELSE IF indexA # -1 THEN -1
      ELSE IF indexB # -1 THEN 1
      ELSE localeCompare(a[1], b[1])

\* the comparator of getChildren; an item is <<name, type>>
SortCompare(order, a, b) ==
  LET indexA == IndexOf(order, a[1])
      indexB == IndexOf(order, b[1])
  IN  IF indexA # -1 /\ indexB # -1 THEN indexA - indexB
      ELSE IF indexA # -1 THEN -1
      ELSE IF indexB # -1 THEN 1
      ELSE IF a[2] = b[2] THEN localeCompare(a[1], b[1])
      ELSE IF a[2] = Directory THEN -1 ELSE 1

\* one step of a stable insertion sort: x goes after the last element that
\* does not compare greater than x
InsertSorted(sorted, x, order) ==
  LET le == {k \in 1..Len(sorted) : SortCompare(order, sorted[k], x) <= 0}
      at == IF le = {} THEN 0 ELSE CHOOSE k \in le : \A j \in le : j <= k
  IN  SubSeq(sorted, 1, at) \o <<x>> \o SubSeq(sorted, at + 1, Len(sorted))

RECURSIVE SortFrom(_, _, _)
SortFrom(items, sorted, order) ==
  IF items = << >> THEN sorted
  ELSE SortFrom(Tail(items), InsertSorted(sorted, Head(items), order), order)

\* items.sort(comparator)
SortItems(items, order) == SortFrom(items, << >>, order)

\* children.filter(([n]) => !reserved.includes(n))
FilterReserved(children) == SelectSeq(children, LAMBDA c : c[1] \notin ReservedNames)

\* a merge that walks the stored order and emits each live name it meets,
\* then the unranked entries: a repeated stored name is emitted twice
MergeListing_ByStored(uri, children, order) ==
  LET items == FilterReserved(children)
      liveNames == {items[k][1] : k \in 1..Len(items)}
      ranked == SelectSeq(order, LAMBDA n : n \in liveNames)
      unranked == SortItems(SelectSeq(items, LAMBDA c : ~Includes(order, c[1])), order)
  IN  [k \in 1..(Len(ranked) + Len(unranked)) |->
         IF k <= Len(ranked)
           THEN [uri |-> joinPath(uri, ranked[k]),
                 type |-> FileTypeOf(joinPath(uri, ranked[k]))]
           ELSE [uri |-> joinPath(uri, unranked[k - Len(ranked)][1]),
                 type |-> unranked[k - Len(ranked)][2]]]

\* the synchronous part of getChildren: filter, sort, map to tree items
MergeListing(uri, children, order) ==
  LET items == SortItems(FilterReserved(children), order)
  IN  [k \in 1..Len(items) |->
         [uri |-> joinPath(uri, items[k][1]), type |-> items[k][2]]]

\* ----------------------------------------------------------------- state
VARIABLES
  fs,           \* the paths that exist in the workspace
  disk,         \* .vscode/sort-order.json: [exists, text]
  orderCache,   \* SortOrderManager.orderCache
  initPending,  \* the constructor's init() has not read the file yet
  initData,     \* what the init() calls in flight have read
  drop,         \* the handleDrop call in flight, or the last one
  cmd,          \* the newFile / newFolder / paste call in flight, or the last
  view,         \* what the last getChildren got and returned
  ops,          \* user commands and external changes so far
  saved,        \* the table the last successful writeFile serialized
  lastLoad,     \* the last init() that read a file written by save()
  committed     \* per key, the order of the last updateOrder that completed
                \* with the file written

vars == <<fs, disk, orderCache, initPending, initData, drop, cmd, view, ops,
          saved, lastLoad, committed>>

ChildrenOf(files, dir) == {p \in files : Len(p) = Len(dir) + 1 /\ dirname(p) = dir}

\* readDirectory(uri): the entries as <<name, type>>, in an order the file
\* system chooses
ReadDirectory(files, dir) ==
  {[k \in 1..Len(perm) |-> <<basename(perm[k]), FileTypeOf(perm[k])>>] :
     perm \in PermsOf(ChildrenOf(files, dir))}

\* the entries the tree shows: a drag source, a drop target, a command item
Visible(files) == {p \in files : basename(p) \notin ReservedNames}

\* ------------------------------------------------------ SortOrderManager
getOrder(cache, folderUri) ==
  LET relativePath == RelativeKey(folderUri)
  IN  IF relativePath \in DOMAIN cache THEN cache[relativePath] ELSE << >>

\* ------------------------------------------------------------ handleDrop
NoTarget == [some |-> FALSE, uri |-> RootUri]
SomeTarget(u) == [some |-> TRUE, uri |-> u]
UriLine(u) == [kind |-> "uri", uri |-> u]

\* 1. Calculate parent URI
ParentUriOf(target) ==
  IF ~target.some THEN RootUri
  ELSE IF FileTypeOf(target.uri) = Directory THEN target.uri
  ELSE dirname(target.uri)

\* let toIndex = order.indexOf(targetName); if (toIndex === -1) toIndex = length
ToIndexOf(order, targetName) ==
  IF IndexOf(order, targetName) = -1 THEN Len(order) ELSE IndexOf(order, targetName)

\* CASE 1 A without `if (fromIndex < toIndex) toIndex--`
InsertBefore_NoShift(order, fileName, targetName) ==
  LET toIndex == ToIndexOf(order, targetName)
      fromIndex == IndexOf(order, fileName)
  IN  IF fromIndex # -1 /\ fromIndex # toIndex
        THEN [order |-> SpliceInsert(SpliceRemove(order, fromIndex), toIndex, fileName),
              changed |-> TRUE]
        ELSE [order |-> order, changed |-> FALSE]

\* CASE 1 A: same folder reordering; gives the order and whether it changed
InsertBefore(order, fileName, targetName) ==
  LET toIndex == ToIndexOf(order, targetName)
      fromIndex == IndexOf(order, fileName)
  IN  IF fromIndex # -1 /\ fromIndex # toIndex
        THEN [order |-> SpliceInsert(SpliceRemove(order, fromIndex),
                                     IF fromIndex < toIndex THEN toIndex - 1 ELSE toIndex,
                                     fileName),
              changed |-> TRUE]
        ELSE [order |-> order, changed |-> FALSE]

\* CASE 2 A without the test `fromIndex !== order.length - 1`
MoveToEnd_NoLastCheck(order, fileName) ==
  LET fromIndex == IndexOf(order, fileName)
  IN  IF fromIndex # -1
        THEN [order |-> Append(SpliceRemove(order, fromIndex), fileName),
              changed |-> TRUE]
        ELSE [order |-> order, changed |-> FALSE]

\* CASE 2 A without `order.splice(fromIndex, 1)`
MoveToEnd_NoRemove(order, fileName) ==
  LET fromIndex == IndexOf(order, fileName)
  IN  IF fromIndex # -1 /\ fromIndex # Len(order) - 1
        THEN [order |-> Append(order, fileName), changed |-> TRUE]
        ELSE [order |-> order, changed |-> FALSE]

\* CASE 2 A: same folder, move to end
MoveToEnd(order, fileName) ==
  LET fromIndex == IndexOf(order, fileName)
  IN  IF fromIndex # -1 /\ fromIndex # Len(order) - 1
        THEN [order |-> Append(SpliceRemove(order, fromIndex), fileName),
              changed |-> TRUE]
        ELSE [order |-> order, changed |-> FALSE]

\* CASE 1 B, after the rename: order.splice(toIndex, 0, fileName)
InsertMoved(order, toIndex, fileName) == SpliceInsert(order, toIndex, fileName)

\* CASE 2 B, after the rename: push, or remove the first occurrence and push
AppendMoved(order, fileName) ==
  IF ~Includes(order, fileName) THEN Append(order, fileName)
  ELSE Append(SpliceRemove(order, IndexOf(order, fileName)), fileName)

IsCase1(target) == target.some /\ FileTypeOf(target.uri) = File

\* sourceParent.fsPath === parentUri.fsPath
SameFolder(sourceUri, parentUri) == dirname(sourceUri) = parentUri

\* the for loop from line i on, run until it awaits a rename or ends
RECURSIVE RunLoop(_, _, _, _, _, _, _)
RunLoop(target, parentUri, lines, i, order, changed, errs) ==
  IF i > Len(lines)
    THEN [pc |-> "end", i |-> i, order |-> order, changed |-> changed,
          errs |-> errs, toIndex |-> 0]
  ELSE IF lines[i].kind = "blank"
    THEN RunLoop(target, parentUri, lines, i + 1, order, changed, errs)
  ELSE IF lines[i].kind = "bad"
    THEN RunLoop(target, parentUri, lines, i + 1, order, changed, errs + 1)
  ELSE LET sourceUri == lines[i].uri
           fileName == basename(sourceUri)
           await == [pc |-> "rename", i |-> i, order |-> order,
                     changed |-> changed, errs |-> errs,
                     toIndex |-> IF IsCase1(target)
                                   THEN ToIndexOf(order, basename(target.uri))
                                   ELSE 0]
       IN  IF IsCase1(target)
             THEN IF SameFolder(sourceUri, parentUri)
                    THEN LET r == InsertBefore(order, fileName, basename(target.uri))
                         IN  RunLoop(target, parentUri, lines, i + 1, r.order,
                                     changed \/ r.changed, errs)
                    ELSE await
           ELSE IF SameFolder(sourceUri, parentUri)
                    THEN LET r == MoveToEnd(order, fileName)
                         IN  RunLoop(target, parentUri, lines, i + 1, r.order,
                                     changed \/ r.changed, errs)
           ELSE IF sourceUri # joinPath(parentUri, fileName) THEN await
           ELSE RunLoop(target, parentUri, lines, i + 1, order, changed, errs)

Keys == {RelativeKey(d) : d \in Dirs}
NotCommitted == [valid |-> FALSE, val |-> << >>, owner |-> "none"]

IdleDrop ==
  [pc |-> "idle", done |-> FALSE, target |-> NoTarget, lines |-> << >>, i |-> 0,
   parentUri |-> RootUri, stored0 |-> << >>, live0 |-> {}, work0 |-> << >>,
   order |-> << >>, aliased |-> FALSE, changed |-> FALSE, toIndex |-> 0,
   renames |-> {}, moved |-> {}, writes |-> 0, errs |-> 0, data |-> << >>,
   dataSrc |-> EmptyTable, table0 |-> EmptyTable, seen |-> {}]

IdleCmd ==
  [pc |-> "idle", done |-> FALSE, kind |-> "none", folderUri |-> RootUri,
   name |-> "", from |-> RootUri, order0 |-> << >>, called |-> FALSE,
   order |-> << >>, errs |-> 0, data |-> << >>, dataSrc |-> EmptyTable,
   created |-> FALSE, table0 |-> EmptyTable, disk0 |-> EmptyTable,
   wrote |-> FALSE, reloaded |-> FALSE, table1 |-> EmptyTable]

NamesIn(files, dir) == {basename(p) : p \in ChildrenOf(files, dir)}

\* handleDrop from line i of the payload on, up to its next await: the
\* loop, then updateOrder (the assignment and the call of save) if the
\* order changed.  The array `order` is the array of the table while
\* d.aliased holds, and splice and push then change the table as well.
DropRun(d, i, cache, comm) ==
  LET r == RunLoop(d.target, d.parentUri, d.lines, i, d.order, d.changed, d.errs)
      key == RelativeKey(d.parentUri)
      through == IF d.aliased THEN TableSet(cache, key, r.order) ELSE cache
      d2 == [d EXCEPT !.i = r.i, !.order = r.order, !.changed = r.changed,
                      !.errs = r.errs, !.toIndex = r.toIndex]
  IN  IF r.pc = "rename"
        THEN [drop |-> [d2 EXCEPT !.pc = "rename",
                                  !.renames = @ \cup {d.lines[r.i].uri},
                                  !.seen = @ \cup {getOrder(through, d.parentUri)}],
              cache |-> through, committed |-> comm]
      ELSE IF r.changed
        THEN [drop |-> [d2 EXCEPT !.pc = "mkdir", !.aliased = TRUE, !.writes = @ + 1],
              cache |-> TableSet(cache, key, r.order),
              committed |-> [comm EXCEPT ![key] = [NotCommitted EXCEPT !.owner = "drop"]]]
      ELSE [drop |-> [d2 EXCEPT !.pc = "idle", !.done = TRUE, !.aliased = FALSE],
            cache |-> through, committed |-> comm]

\* the payloads handleDrag builds: up to MaxSources distinct visible entries
Payloads(files, max) ==
  UNION {{[k \in 1..n |-> UriLine(q[k])] :
            q \in {q \in [1..n -> Visible(files)] :
                     \A a, b \in 1..n : q[a] = q[b] => a = b}} :
         n \in 1..max}

\* a line decodeURIComponent or Uri.parse throws on, and an empty line
BadLine == [kind |-> "bad", uri |-> RootUri]
BlankLine == [kind |-> "blank", uri |-> RootUri]

\* the payloads a drop may carry: the lines handleDrag builds and lines
\* that do not parse, with or without an empty last line
AnyPayloads(files, max) ==
  LET Lines == {UriLine(p) : p \in Visible(files)} \cup {BadLine}
      Seqs(n) == {q \in [1..n -> Lines] : \A a, b \in 1..n : q[a] = q[b] => a = b}
  IN  UNION {Seqs(n) \cup {Append(q, BlankLine) : q \in Seqs(n - 1)} : n \in 1..max}

Targets(files) == {NoTarget} \cup {SomeTarget(p) : p \in Visible(files)}

\* handleDrop up to its first await after asString: parentUri, getOrder,
\* and either the call of readDirectory or the loop
DropBegin(target, lines) ==
  /\ drop.pc = "idle"
  /\ cmd.pc = "idle"
  /\ ops < MaxOps
  /\ LET parentUri == ParentUriOf(target)
         stored == getOrder(orderCache, parentUri)
         d0 == [IdleDrop EXCEPT !.target = target, !.lines = lines,
                                !.parentUri = parentUri, !.stored0 = stored,
                                !.table0 = orderCache]
     IN  IF Len(stored) = 0
           THEN /\ drop' = [d0 EXCEPT !.pc = "readdir", !.seen = {stored}]
                /\ UNCHANGED <<orderCache, committed>>
           ELSE LET n == DropRun([d0 EXCEPT !.order = stored, !.work0 = stored,
                                            !.live0 = NamesIn(fs, parentUri),
                                            !.aliased = TRUE],
                                 1, orderCache, committed)
                IN  /\ drop' = n.drop
                    /\ orderCache' = n.cache
                    /\ committed' = n.committed
  /\ ops' = ops + 1
  /\ cmd' = IdleCmd
  /\ UNCHANGED <<fs, disk, initPending, initData, view, saved, lastLoad>>

\* readDirectory(parentUri) resolves: order = children.map(c => c[0])
DropReaddirDone(children) ==
  /\ drop.pc = "readdir"
  /\ LET names == [k \in 1..Len(children) |-> children[k][1]]
         n == DropRun([drop EXCEPT !.order = names, !.work0 = names,
                                   !.live0 = NamesIn(fs, drop.parentUri)],
                      1, orderCache, committed)
     IN  /\ drop' = n.drop
         /\ orderCache' = n.cache
         /\ committed' = n.committed
  /\ UNCHANGED <<fs, disk, initPending, initData, cmd, view, ops, saved, lastLoad>>

\* fs.rename(source, dest, {overwrite: false}) succeeds
RenameOk(files, sourceUri, destUri) ==
  /\ sourceUri \in files
  /\ destUri \notin files
  /\ ~(Len(destUri) > Len(sourceUri) /\ SubSeq(destUri, 1, Len(sourceUri)) = sourceUri)

\* a loop that inserts the name also when the rename rejected
DropRenameDone_InsertAnyway ==
  /\ drop.pc = "rename"
  /\ LET sourceUri == drop.lines[drop.i].uri
         fileName == basename(sourceUri)
         destUri == joinPath(drop.parentUri, fileName)
         ok == RenameOk(fs, sourceUri, destUri)
         d == [drop EXCEPT !.order = IF IsCase1(drop.target)
                                       THEN InsertMoved(@, drop.toIndex, fileName)
                                       ELSE AppendMoved(@, fileName),
                           !.changed = TRUE,
                           !.moved = IF ok THEN @ \cup {sourceUri} ELSE @,
                           !.errs = IF ok THEN @ ELSE @ + 1]
         n == DropRun(d, drop.i + 1, orderCache, committed)
     IN  /\ fs' = IF ok THEN (fs \ {sourceUri}) \cup {destUri} ELSE fs
         /\ drop' = n.drop
         /\ orderCache' = n.cache
         /\ committed' = n.committed
  /\ UNCHANGED <<disk, initPending, initData, cmd, view, ops, saved, lastLoad>>

\* the rename of line i resolves or rejects; the loop goes on
DropRenameDone ==
  /\ drop.pc = "rename"
  /\ LET sourceUri == drop.lines[drop.i].uri
         fileName == basename(sourceUri)
         destUri == joinPath(drop.parentUri, fileName)
         ok == RenameOk(fs, sourceUri, destUri)
         d == IF ok
                THEN [drop EXCEPT !.order = IF IsCase1(drop.target)
                                              THEN InsertMoved(@, drop.toIndex, fileName)
                                              ELSE AppendMoved(@, fileName),
                                  !.changed = TRUE,
                                  !.moved = @ \cup {sourceUri}]
                ELSE [drop EXCEPT !.errs = @ + 1]
         n == DropRun(d, drop.i + 1, orderCache, committed)
     IN  /\ fs' = IF ok THEN (fs \ {sourceUri}) \cup {destUri} ELSE fs
         /\ drop' = n.drop
         /\ orderCache' = n.cache
         /\ committed' = n.committed
  /\ UNCHANGED <<disk, initPending, initData, cmd, view, ops, saved, lastLoad>>

\* save() in updateOrder called by handleDrop: createDirectory has resolved
\* or rejected; the table is serialized now and writeFile is called
DropMkdirDone ==
  /\ drop.pc = "mkdir"
  /\ fs' = fs \cup {VscodeUri}
  /\ drop' = [drop EXCEPT !.pc = "write", !.data = JSONstringify(orderCache),
                          !.dataSrc = orderCache]
  /\ UNCHANGED <<disk, orderCache, initPending, initData, cmd, view, ops, saved,
                 lastLoad, committed>>

\* writeFile resolves (ok) or rejects; updateOrder returns, refresh
DropWriteDone(ok) ==
  /\ drop.pc = "write"
  /\ LET key == RelativeKey(drop.parentUri)
     IN  /\ drop' = [drop EXCEPT !.pc = "idle", !.done = TRUE, !.aliased = FALSE,
                                 !.errs = IF ok THEN @ ELSE @ + 1]
         /\ disk' = IF ok THEN [exists |-> TRUE, text |-> drop.data] ELSE disk
         /\ saved' = IF ok THEN [some |-> TRUE, table |-> drop.dataSrc] ELSE saved
         /\ committed' = IF committed[key].owner = "drop"
                           THEN [committed EXCEPT ![key] =
                                   [valid |-> ok, val |-> drop.order, owner |-> "none"]]
                           ELSE committed
  /\ UNCHANGED <<fs, orderCache, initPending, initData, cmd, view, ops, lastLoad>>

\* ------------------------------------------------------------------ init
NotSaved == [some |-> FALSE, table |-> EmptyTable]
NotLoaded == [some |-> FALSE, saved |-> EmptyTable, loaded |-> EmptyTable]

\* vscode.workspace.fs.readFile(this.sortFileUri): the text, or a rejection
ReadFile == IF disk.exists THEN [ok |-> TRUE, text |-> disk.text, src |-> saved]
            ELSE [ok |-> FALSE, text |-> << >>, src |-> NotSaved]

InFlightInits == Cardinality(initData) + (IF initPending THEN 1 ELSE 0)

\* the init() the constructor called reads the file
InitRead ==
  /\ initPending
  /\ initPending' = FALSE
  /\ initData' = initData \cup {ReadFile}
  /\ UNCHANGED <<fs, disk, orderCache, drop, cmd, view, ops, saved, lastLoad, committed>>

\* watcher.onDidCreate / onDidDelete: init() is called and reads the file
WatcherReload ==
  /\ InFlightInits < MaxInits
  /\ initData' = initData \cup {ReadFile}
  /\ UNCHANGED <<fs, disk, orderCache, initPending, drop, cmd, view, ops, saved,
                 lastLoad, committed>>

\* an init() without the assignment in the catch: the table stays as it is
LoadedTable_KeepOnFail(d) ==
  IF d.ok /\ JSONparse(d.text).ok THEN JSONparse(d.text).val ELSE orderCache

\* the table init() assigns: the parsed text, or {} in the catch
LoadedTable(d) ==
  IF d.ok /\ JSONparse(d.text).ok THEN JSONparse(d.text).val ELSE EmptyTable

\* init() resumes after readFile: this.orderCache = ... (a new object, so
\* the array a handleDrop in flight holds is no longer the table's)
InitAssign(d) ==
  /\ d \in initData
  /\ initData' = initData \ {d}
  /\ orderCache' = LoadedTable(d)
  /\ drop' = [drop EXCEPT !.aliased = FALSE]
  /\ cmd' = IF cmd.created THEN [cmd EXCEPT !.reloaded = TRUE] ELSE cmd
  /\ lastLoad' = IF d.ok /\ d.src.some
                   THEN [some |-> TRUE, saved |-> d.src.table, loaded |-> LoadedTable(d)]
                   ELSE lastLoad
  /\ UNCHANGED <<fs, disk, initPending, view, ops, saved, committed>>

\* ----------------------------------------------------------- getChildren
NoView == [some |-> FALSE, uri |-> RootUri, live |-> {}, order |-> << >>,
           items |-> << >>]

\* readDirectory(uri) resolves with children; filter, getOrder, sort, map
GetChildren(uri, children) ==
  /\ view' = [some |-> TRUE, uri |-> uri, live |-> Range(children),
              order |-> getOrder(orderCache, uri),
              items |-> MergeListing(uri, children, getOrder(orderCache, uri))]
  /\ UNCHANGED <<fs, disk, orderCache, initPending, initData, drop, cmd, ops,
                 saved, lastLoad, committed>>

\* ------------------------------------------- newFile, newFolder and paste
NoItem == [some |-> FALSE, uri |-> RootUri]
SomeItem(u) == [some |-> TRUE, uri |-> u]
Items(files) == {NoItem} \cup {SomeItem(p) : p \in Visible(files)}

\* the folder a command works in: the item if it is a folder, its parent
\* if it is a file, the root without an item
CommandFolder(item) ==
  IF ~item.some THEN RootUri
  ELSE IF FileTypeOf(item.uri) = File THEN dirname(item.uri)
  ELSE item.uri

\* `${name} copy ${counter}${ext}`
CopyName(fileName, counter) ==
  IF fileName = "a.ts" /\ counter = 1 THEN "a copy 1.ts" ELSE "(other)"

\* the while loop of paste: the first name that does not exist
RECURSIVE FinalName(_, _, _, _, _)
FinalName(files, targetUri, fileName, finalName, counter) ==
  IF joinPath(targetUri, finalName) \in files
    THEN FinalName(files, targetUri, fileName, CopyName(fileName, counter), counter + 1)
    ELSE finalName

\* newFile: the name is entered; writeFile is called
NewFile(item, fileName) ==
  /\ cmd.pc = "idle"
  /\ drop.pc = "idle"
  /\ ops < MaxOps
  /\ joinPath(CommandFolder(item), fileName) \in AllPaths
  /\ cmd' = [IdleCmd EXCEPT !.pc = "create", !.kind = "newFile",
                            !.folderUri = CommandFolder(item), !.name = fileName]
  /\ ops' = ops + 1
  /\ drop' = IdleDrop
  /\ UNCHANGED <<fs, disk, orderCache, initPending, initData, view, saved,
                 lastLoad, committed>>

\* newFolder: the name is entered; createDirectory is called
NewFolder(item, folderName) ==
  /\ cmd.pc = "idle"
  /\ drop.pc = "idle"
  /\ ops < MaxOps
  /\ joinPath(CommandFolder(item), folderName) \in AllPaths
  /\ cmd' = [IdleCmd EXCEPT !.pc = "create", !.kind = "newFolder",
                            !.folderUri = CommandFolder(item), !.name = folderName]
  /\ ops' = ops + 1
  /\ drop' = IdleDrop
  /\ UNCHANGED <<fs, disk, orderCache, initPending, initData, view, saved,
                 lastLoad, committed>>

\* paste: the clipboard holds an existing path; the final name is chosen
\* and copy is called
Paste(item, clipboardPath) ==
  /\ cmd.pc = "idle"
  /\ drop.pc = "idle"
  /\ ops < MaxOps
  /\ clipboardPath \in fs
  /\ LET targetUri == CommandFolder(item)
         fileName == basename(clipboardPath)
         finalName == FinalName(fs, targetUri, fileName, fileName, 1)
     IN  /\ joinPath(targetUri, finalName) \in AllPaths
         /\ cmd' = [IdleCmd EXCEPT !.pc = "create", !.kind = "paste",
                                   !.folderUri = targetUri, !.name = finalName,
                                   !.from = clipboardPath]
  /\ ops' = ops + 1
  /\ drop' = IdleDrop
  /\ UNCHANGED <<fs, disk, orderCache, initPending, initData, view, saved,
                 lastLoad, committed>>

\* whether writeFile / createDirectory / copy succeeds
CreateOk(files, c) ==
  LET newUri == joinPath(c.folderUri, c.name)
  IN  CASE c.kind = "newFile" -> FileTypeOf(newUri) = File
        [] c.kind = "newFolder" -> FileTypeOf(newUri) = Directory
        [] OTHER -> c.from \in files /\ newUri \notin files

\* a command that puts the new name in front of the order
CmdCreateDone_Prepend ==
  /\ cmd.pc = "create"
  /\ LET key == RelativeKey(cmd.folderUri)
         currentOrder == getOrder(orderCache, cmd.folderUri)
         newOrder == <<cmd.name>> \o currentOrder
     IN  IF ~CreateOk(fs, cmd)
           THEN /\ cmd' = [cmd EXCEPT !.pc = "idle", !.done = TRUE,
                                      !.errs = IF cmd.kind = "paste" THEN 1 ELSE 0]
                /\ UNCHANGED <<fs, orderCache, drop, committed>>
         ELSE /\ fs' = fs \cup {joinPath(cmd.folderUri, cmd.name)}
              /\ IF Includes(currentOrder, cmd.name)
                   THEN /\ cmd' = [cmd EXCEPT !.pc = "idle", !.done = TRUE,
                                              !.order0 = currentOrder,
                                              !.created = TRUE,
                                              !.table0 = orderCache,
                                              !.disk0 = LoadedTable(ReadFile)]
                        /\ UNCHANGED <<orderCache, drop, committed>>
                   ELSE /\ cmd' = [cmd EXCEPT !.pc = "mkdir", !.called = TRUE,
                                              !.order0 = currentOrder,
                                              !.order = newOrder,
                                              !.created = TRUE,
                                              !.table0 = orderCache,
                                              !.disk0 = LoadedTable(ReadFile)]
                        /\ orderCache' = TableSet(orderCache, key, newOrder)
                        /\ drop' = IF RelativeKey(drop.parentUri) = key
                                     THEN [drop EXCEPT !.aliased = FALSE] ELSE drop
                        /\ committed' = [committed EXCEPT ![key] =
                                           [NotCommitted EXCEPT !.owner = "cmd"]]
  /\ UNCHANGED <<disk, initPending, initData, view, ops, saved, lastLoad>>

\* the entry is created; getOrder, includes, and updateOrder with the name
\* appended to a copy ([...currentOrder, name]) if it is not in the order
CmdCreateDone ==
  /\ cmd.pc = "create"
  /\ LET key == RelativeKey(cmd.folderUri)
         currentOrder == getOrder(orderCache, cmd.folderUri)
         newOrder == Append(currentOrder, cmd.name)
     IN  IF ~CreateOk(fs, cmd)
           THEN /\ cmd' = [cmd EXCEPT !.pc = "idle", !.done = TRUE,
                                      !.errs = IF cmd.kind = "paste" THEN 1 ELSE 0]
                /\ UNCHANGED <<fs, orderCache, drop, committed>>
         ELSE /\ fs' = fs \cup {joinPath(cmd.folderUri, cmd.name)}
              /\ IF Includes(currentOrder, cmd.name)
                   THEN /\ cmd' = [cmd EXCEPT !.pc = "idle", !.done = TRUE,
                                              !.order0 = currentOrder,
                                              !.created = TRUE,
                                              !.table0 = orderCache,
                                              !.disk0 = LoadedTable(ReadFile)]
                        /\ UNCHANGED <<orderCache, drop, committed>>
                   ELSE /\ cmd' = [cmd EXCEPT !.pc = "mkdir", !.called = TRUE,
                                              !.order0 = currentOrder,
                                              !.order = newOrder,
                                              !.created = TRUE,
                                              !.table0 = orderCache,
                                              !.disk0 = LoadedTable(ReadFile)]
                        /\ orderCache' = TableSet(orderCache, key, newOrder)
                        /\ drop' = IF RelativeKey(drop.parentUri) = key
                                     THEN [drop EXCEPT !.aliased = FALSE] ELSE drop
                        /\ committed' = [committed EXCEPT ![key] =
                                           [NotCommitted EXCEPT !.owner = "cmd"]]
  /\ UNCHANGED <<disk, initPending, initData, view, ops, saved, lastLoad>>

\* save() in updateOrder called by a command: serialize, call writeFile
CmdMkdirDone ==
  /\ cmd.pc = "mkdir"
  /\ fs' = fs \cup {VscodeUri}
  /\ cmd' = [cmd EXCEPT !.pc = "write", !.data = JSONstringify(orderCache),
                        !.dataSrc = orderCache]
  /\ UNCHANGED <<disk, orderCache, initPending, initData, drop, view, ops, saved,
                 lastLoad, committed>>

\* a save() whose catch puts the previous order back when writeFile rejects
CmdWriteDone_Rollback(ok) ==
  /\ cmd.pc = "write"
  /\ LET key == RelativeKey(cmd.folderUri)
     IN  /\ cmd' = [cmd EXCEPT !.pc = "idle", !.done = TRUE, !.wrote = ok,
                               !.table1 = orderCache,
                               !.errs = IF ok THEN @ ELSE @ + 1]
         /\ disk' = IF ok THEN [exists |-> TRUE, text |-> cmd.data] ELSE disk
         /\ saved' = IF ok THEN [some |-> TRUE, table |-> cmd.dataSrc] ELSE saved
         /\ committed' = IF committed[key].owner = "cmd"
                           THEN [committed EXCEPT ![key] =
                                   [valid |-> ok, val |-> cmd.order, owner |-> "none"]]
                           ELSE committed
         /\ orderCache' = IF ok THEN orderCache
                           ELSE TableSet(orderCache, key, cmd.order0)
  /\ UNCHANGED <<fs, initPending, initData, drop, view, ops, lastLoad>>

\* writeFile resolves (ok) or rejects; updateOrder returns, refresh
CmdWriteDone(ok) ==
  /\ cmd.pc = "write"
  /\ LET key == RelativeKey(cmd.folderUri)
     IN  /\ cmd' = [cmd EXCEPT !.pc = "idle", !.done = TRUE, !.wrote = ok,
                               !.table1 = orderCache,
                               !.errs = IF ok THEN @ ELSE @ + 1]
         /\ disk' = IF ok THEN [exists |-> TRUE, text |-> cmd.data] ELSE disk
         /\ saved' = IF ok THEN [some |-> TRUE, table |-> cmd.dataSrc] ELSE saved
         /\ committed' = IF committed[key].owner = "cmd"
                           THEN [committed EXCEPT ![key] =
                                   [valid |-> ok, val |-> cmd.order, owner |-> "none"]]
                           ELSE committed
  /\ UNCHANGED <<fs, orderCache, initPending, initData, drop, view, ops, lastLoad>>

\* ------------------------------------------------- changes from outside
\* explorerSort.delete, or a deletion outside the extension: the entry
\* goes, the stored order is not touched
DeleteEntry(p) ==
  /\ ops < MaxOps
  /\ p \in fs
  /\ FileTypeOf(p) = File
  /\ fs' = fs \ {p}
  /\ ops' = ops + 1
  /\ UNCHANGED <<disk, orderCache, initPending, initData, drop, cmd, view, saved,
                 lastLoad, committed>>

\* -------------------------------------------------------- specifications
\* all arrays of distinct names up to a length
RECURSIVE DistinctSeqs(_, _)
DistinctSeqs(S, n) ==
  IF n = 0 THEN {<< >>}
  ELSE LET shorter == DistinctSeqs(S, n - 1)
       IN  shorter \cup UNION {{Append(q, x) : x \in S \ Range(q)} : q \in shorter}

\* all arrays of names up to a length, repetitions included
RECURSIVE AllSeqs(_, _)
AllSeqs(S, n) ==
  IF n = 0 THEN {<< >>}
  ELSE LET shorter == AllSeqs(S, n - 1)
       IN  shorter \cup {Append(q, x) : q \in shorter, x \in S}

NoFile == [exists |-> FALSE, text |-> << >>]
TextFile(text) == [exists |-> TRUE, text |-> text]
TableFile(t) == TextFile(JSONstringify(t))
RootTable(order) == TableSet(EmptyTable, ".", order)

\* the workspace the behaviours of Spec start from
StartFiles == {<<"a.ts">>, <<"m.ts">>, LibUri, <<LibName, "a.ts">>, <<LibName, "z.ts">>}

\* the order files the behaviours of Spec start from: none, a truncated
\* one, and tables with distinct names per key
StartDisks ==
  {NoFile, TableFile(TableSet(RootTable(<<"m.ts", "a.ts">>), "lib", <<"z.ts">>))}

\* the state after activate(): the managers are constructed, init() is called
Init ==
  /\ fs = StartFiles
  /\ disk \in StartDisks
  /\ orderCache = EmptyTable
  /\ initPending = TRUE
  /\ initData = {}
  /\ drop = IdleDrop
  /\ cmd = IdleCmd
  /\ view = NoView
  /\ ops = 0
  /\ saved = NotSaved
  /\ lastLoad = NotLoaded
  /\ committed = [k \in Keys |-> NotCommitted]

\* the listing in name order and in the reverse order: two of the orders
\* readDirectory may list a directory in
RECURSIVE Ascending(_)
Ascending(S) ==
  IF S = {} THEN << >>
  ELSE LET first == CHOOSE p \in S : \A q \in S :
                      CollationRank(basename(p)) <= CollationRank(basename(q))
       IN  <<first>> \o Ascending(S \ {first})

Reverse(s) == [k \in 1..Len(s) |-> s[Len(s) + 1 - k]]

TwoListings(files, dir) ==
  LET asc == [k \in 1..Cardinality(ChildrenOf(files, dir)) |->
                <<basename(Ascending(ChildrenOf(files, dir))[k]),
                  FileTypeOf(Ascending(ChildrenOf(files, dir))[k])>>]
  IN  {asc, Reverse(asc)}

\* a gesture of the user starts while no command is suspended
CanStart == drop.pc = "idle" /\ cmd.pc = "idle" /\ ops < MaxOps

DropStart(max) ==
  /\ CanStart
  /\ \E target \in Targets(fs), lines \in Payloads(fs, max) : DropBegin(target, lines)

DropReaddir(listings) ==
  /\ drop.pc = "readdir"
  /\ \E children \in listings : DropReaddirDone(children)

DropWrite == \E ok \in BOOLEAN : DropWriteDone(ok)

CmdStart ==
  /\ CanStart
  /\ \/ \E item \in Items(fs), fileName \in Files : NewFile(item, fileName)
     \/ \E item \in Items(fs) : NewFolder(item, LibName)
     \/ \E item \in Items(fs), clipboardPath \in Visible(fs) : Paste(item, clipboardPath)

CmdWrite == \E ok \in BOOLEAN : CmdWriteDone(ok)

CmdNext == CmdStart \/ CmdCreateDone \/ CmdMkdirDone \/ CmdWrite

LoadNext == InitRead \/ WatcherReload \/ \E d \in initData : InitAssign(d)

ViewNext ==
  \E uri \in Dirs : \E children \in ReadDirectory(fs, uri) : GetChildren(uri, children)

Delete == CanStart /\ \E p \in Visible(fs) : DeleteEntry(p)

Next ==
  \/ DropStart(SysSources)
  \/ DropReaddir(TwoListings(fs, drop.parentUri))
  \/ DropRenameDone
  \/ DropMkdirDone
  \/ DropWrite
  \/ CmdNext
  \/ LoadNext
  \/ Delete

Spec == Init /\ [][Next]_vars

\* no command in flight, nothing loaded or saved yet
Quiet ==
  /\ initPending = FALSE
  /\ initData = {}
  /\ drop = IdleDrop
  /\ cmd = IdleCmd
  /\ view = NoView
  /\ saved = NotSaved
  /\ lastLoad = NotLoaded
  /\ committed = [k \in Keys |-> NotCommitted]

\* ---- SpecMerge: getChildren on any listing and any loaded stored order
MergeNames == Files \cup {LibName}

InitMerge ==
  /\ Quiet
  /\ \E S \in SUBSET {<<"a.ts">>, <<"z.ts">>, VscodeUri},
        L \in {{}, {<<LibName, "a.ts">>, <<LibName, "z.ts">>},
               {<<LibName, "a.ts">>, <<LibName, "m.ts">>, <<LibName, "z.ts">>}} :
       fs = S \cup L \cup {LibUri}
  /\ disk = NoFile
  /\ \E o \in AllSeqs(MergeNames, MergeStored) :
       orderCache \in {RootTable(o), TableSet(EmptyTable, "lib", o)}
  /\ ops = 0

SpecMerge == InitMerge /\ [][ViewNext]_vars

\* ---- SpecDrop: one handleDrop on any loaded table with distinct names
InitDrop ==
  /\ Quiet
  /\ \E S \in {{<<"a.ts">>, <<"m.ts">>, <<"z.ts">>}, {<<"m.ts">>, <<"z.ts">>}} :
       fs = S \cup {LibUri, <<LibName, "a.ts">>}
  /\ disk = NoFile
  /\ \E o \in DistinctSeqs(MergeNames, MaxStored) :
       orderCache \in {RootTable(o), TableSet(RootTable(o), "lib", <<"a.ts">>)}
  /\ ops = MaxOps - 1

DropStartAny(max) ==
  /\ CanStart
  /\ \E target \in Targets(fs), lines \in AnyPayloads(fs, max) : DropBegin(target, lines)

DropNext ==
  \/ DropStartAny(MaxSources)
  \/ DropReaddir(ReadDirectory(fs, drop.parentUri))
  \/ DropRenameDone
  \/ DropMkdirDone
  \/ DropWrite

SpecDrop == InitDrop /\ [][DropNext]_vars

\* ---- SpecStore: one command and the reloads, on any order file
InitStore ==
  /\ fs = StartFiles
  /\ \/ disk \in {NoFile, TextFile(<<Punct("{"), Str(".")>>)}
     \/ \E o \in DistinctSeqs(MergeNames, MaxStored) :
          disk \in {TableFile(RootTable(o)),
                    TableFile(TableSet(RootTable(o), "lib", <<"z.ts">>))}
  /\ orderCache = EmptyTable
  /\ initPending = TRUE
  /\ initData = {}
  /\ drop = IdleDrop
  /\ cmd = IdleCmd
  /\ view = NoView
  /\ ops = MaxOps - 1
  /\ saved = NotSaved
  /\ lastLoad = NotLoaded
  /\ committed = [k \in Keys |-> NotCommitted]

StoreNext == CmdNext \/ LoadNext

SpecStore == InitStore /\ [][StoreNext]_vars

\* ================================================================ claims
ViewNames == [k \in 1..Len(view.items) |-> basename(view.items[k].uri)]
Ranked(n) == Includes(view.order, n)

\* C6 (theorem, SpecMerge): the display order getChildren returns lists the
\* live entries whose name is in the stored order first, in the order of
\* their first occurrence in the stored order, and the other live entries
\* after them, directories before files and then by name; with no stored
\* order, live {dir lib, a.ts, z.ts} gives [lib, a.ts, z.ts], and stored
\* [z.ts, a.ts] with live a.ts, m.ts, z.ts gives [z.ts, a.ts, m.ts].
C6_MergeOrdering ==
  view.some =>
    /\ \A i, j \in 1..Len(view.items) : i < j =>
         LET a == ViewNames[i]
             b == ViewNames[j]
         IN  /\ Ranked(b) => Ranked(a)
             /\ Ranked(a) /\ Ranked(b) =>
                  IndexOf(view.order, a) < IndexOf(view.order, b)
             /\ ~Ranked(a) /\ ~Ranked(b) =>
                  \/ view.items[i].type = Directory /\ view.items[j].type = File
                  \/ /\ view.items[i].type = view.items[j].type
                     /\ CollationRank(a) < CollationRank(b)
    /\ (/\ view.live = {<<"lib", Directory>>, <<"a.ts", File>>, <<"z.ts", File>>}
        /\ view.order = << >>) => ViewNames = <<"lib", "a.ts", "z.ts">>
    /\ (/\ view.live = {<<"a.ts", File>>, <<"m.ts", File>>, <<"z.ts", File>>}
        /\ view.order = <<"z.ts", "a.ts">>) => ViewNames = <<"z.ts", "a.ts", "m.ts">>

\* C6 (witness): a listing with a directory and files outside the stored
\* order, and ranked entries the stored order lists against the name order
C6_Witness ==
  /\ view.some
  /\ view.order = <<"z.ts", "a.ts">>
  /\ ViewNames = <<"z.ts", "a.ts", "lib">>

LiveShown == {c \in view.live : c[1] \notin ReservedNames}

\* C7 (theorem, SpecMerge): for any stored order (empty, stale names only,
\* repeated names, live names missing) the display order holds every live
\* child that is not a reserved name exactly once and nothing else, so its
\* length is the live count minus the reserved names present; the stored
\* order and the directory are as they were before the call.
C7_MergeComplete ==
  view.some =>
    /\ NoDup(ViewNames)
    /\ {<<basename(view.items[k].uri), view.items[k].type>> :
          k \in 1..Len(view.items)} = LiveShown
    /\ \A k \in 1..Len(view.items) : dirname(view.items[k].uri) = view.uri
    /\ Len(view.items) =
         Cardinality(view.live)
           - Cardinality({c \in view.live : c[1] \in ReservedNames})
    /\ getOrder(orderCache, view.uri) = view.order
    /\ {c[1] : c \in view.live} = NamesIn(fs, view.uri)

\* C7 (witness): a stored order with a repeated name and a stale name, a
\* reserved name in the listing, and a live name the stored order lacks
C7_Witness ==
  /\ view.some
  /\ view.order = <<"a.ts", "a.ts", "m.ts">>
  /\ view.live = {<<"lib", Directory>>, <<"a.ts", File>>, <<"z.ts", File>>,
                  <<".vscode", Directory>>}
  /\ Len(view.items) = 3

\* ---- handleDrop
\* the loop over the payload is over: the order of the batch is final
DropApplied == drop.pc \in {"mkdir", "write"} \/ drop.done

SingleSource == Len(drop.lines) = 1 /\ drop.lines[1].kind = "uri"
SourceName == basename(drop.lines[1].uri)
TargetName == basename(drop.target.uri)
Without(s, n) == SelectSeq(s, LAMBDA x : x # n)

\* s removed and put back immediately before t
BeforeTarget(old, n, t) ==
  LET rest == Without(old, n)
      at == CHOOSE k \in 1..Len(rest) : rest[k] = t
  IN  SubSeq(rest, 1, at - 1) \o <<n>> \o SubSeq(rest, at, Len(rest))

SameFolderOntoFile ==
  /\ DropApplied
  /\ SingleSource
  /\ IsCase1(drop.target)
  /\ dirname(drop.lines[1].uri) = drop.parentUri
  /\ NoDup(drop.stored0)
  /\ Includes(drop.stored0, SourceName)
  /\ Includes(drop.stored0, TargetName)
  /\ SourceName # TargetName

\* C2 (theorem, SpecDrop): a same-directory drop of one source s onto a file
\* t, both in the stored order of distinct names and s # t, leaves the old
\* order with s removed and put back immediately before t, every other
\* name in its relative position; [A,B,C,D] with D on B gives [A,D,B,C]
\* and A on C gives [B,A,C,D] (A = lib, B = a.ts, C = m.ts, D = z.ts).
C2_InsertBefore ==
  SameFolderOntoFile =>
    /\ drop.order = BeforeTarget(drop.stored0, SourceName, TargetName)
    /\ getOrder(orderCache, drop.parentUri) = drop.order
    /\ \E k \in 1..(Len(drop.order) - 1) :
         drop.order[k] = SourceName /\ drop.order[k + 1] = TargetName
    /\ Without(drop.order, SourceName) = Without(drop.stored0, SourceName)
    /\ (/\ drop.stored0 = <<"lib", "a.ts", "m.ts", "z.ts">>
        /\ SourceName = "z.ts" /\ TargetName = "a.ts")
         => drop.order = <<"lib", "z.ts", "a.ts", "m.ts">>
    /\ (/\ drop.stored0 = <<"lib", "a.ts", "m.ts", "z.ts">>
        /\ SourceName = "lib" /\ TargetName = "m.ts")
         => drop.order = <<"a.ts", "lib", "m.ts", "z.ts">>

\* C2 (witness): A dropped on C in [A,B,C,D], written back to the table
C2_Witness ==
  /\ SameFolderOntoFile
  /\ drop.done
  /\ drop.stored0 = <<"lib", "a.ts", "m.ts", "z.ts">>
  /\ SourceName = "lib"
  /\ TargetName = "m.ts"
  /\ getOrder(orderCache, RootUri) = <<"a.ts", "lib", "m.ts", "z.ts">>

SameFolderOntoNothing ==
  /\ DropApplied
  /\ SingleSource
  /\ ~drop.target.some
  /\ dirname(drop.lines[1].uri) = drop.parentUri
  /\ Includes(drop.work0, SourceName)

\* C3 (theorem, SpecDrop): a same-directory drop of one source s onto empty
\* space, s in the order, leaves the old order with s removed and appended
\* as the last element, the other names in their relative order; if s is
\* already last the order is unchanged and nothing is persisted.
C3_MoveToEnd ==
  SameFolderOntoNothing =>
    /\ drop.order = Append(Without(drop.work0, SourceName), SourceName)
    /\ IF drop.work0[Len(drop.work0)] = SourceName
         THEN /\ drop.order = drop.work0
              /\ drop.writes = 0
              /\ drop.pc = "idle"
              /\ getOrder(orderCache, RootUri) = drop.stored0
              /\ disk = NoFile
         ELSE /\ drop.writes = 1
              /\ getOrder(orderCache, RootUri) = drop.order

\* C3 (witness): [A,B,C] with A dropped onto empty space gives [B,C,A]
C3_Witness ==
  /\ SameFolderOntoNothing
  /\ drop.done
  /\ drop.stored0 = <<"a.ts", "m.ts", "z.ts">>
  /\ SourceName = "a.ts"
  /\ getOrder(orderCache, RootUri) = <<"m.ts", "z.ts", "a.ts">>
  /\ disk.exists

\* the drop context directory: the parent of the target, or the root
DropContext == IF drop.target.some THEN dirname(drop.target.uri) ELSE RootUri

\* C4 (the claim, violated in SpecDrop): a dragged source whose parent is
\* not the drop context directory is skipped: no rename is issued for it
\* and the order stored for the drop context directory is left as it was.
C4_SiblingRejection ==
  /\ \A k \in 1..Len(drop.lines) :
       dirname(drop.lines[k].uri) # DropContext =>
         drop.lines[k].uri \notin drop.renames
  /\ (/\ DropApplied
      /\ \A k \in 1..Len(drop.lines) : dirname(drop.lines[k].uri) # DropContext)
       => getOrder(orderCache, DropContext) = getOrder(drop.table0, DropContext)

\* C5 (the claim, violated in SpecDrop): the directory whose order a drop
\* reads and writes is the parent of the target when there is a target,
\* also when the target is a directory, and the root without a target; the
\* order stored under a dropped-on directory is not modified by the drop.
C5_DropContext ==
  (drop.pc # "idle" \/ drop.done) =>
    /\ drop.parentUri = DropContext
    /\ (drop.target.some /\ FileTypeOf(drop.target.uri) = Directory) =>
         getOrder(orderCache, drop.target.uri) = getOrder(drop.table0, drop.target.uri)

\* C8 (the claim, violated in SpecDrop): before any source is processed,
\* every live child of the drop context directory that the stored order
\* lacks is appended to the working order, so a same-directory drop of a
\* live child onto a live sibling file finds both indices.
C8_FreezePass ==
  (drop.pc \notin {"idle", "readdir"} \/ drop.done) =>
    /\ \A n \in drop.live0 : Includes(drop.work0, n)
    /\ \A k \in 1..Len(drop.stored0) : drop.work0[k] = drop.stored0[k]

\* ---- the order table
\* C1 (the claim, violated in Spec): after any sequence of drops, commands,
\* deletions and reloads, the order stored under every directory key holds
\* each name at most once, the table having been loaded with distinct
\* names per key.
C1_NoDuplicates == \A k \in DOMAIN orderCache : NoDup(orderCache[k])

\* C9 (the claim, violated in SpecStore): once updateOrder(dir, o) has
\* completed (here: with the file written), getOrder(dir) returns o until
\* the next updateOrder for dir, also when a reload (init) was in flight
\* while the write was made.
C9_ReadYourWrites ==
  \A d \in Dirs :
    committed[RelativeKey(d)].valid =>
      getOrder(orderCache, d) = committed[RelativeKey(d)].val

\* C10 (theorem, SpecStore): a table of distinct names per key that save()
\* wrote with no failure and init() then read and parsed, with no write
\* between the two, is the table init() assigns: the same keys, each with
\* the same names in the same order.
C10_RoundTrip ==
  lastLoad.some =>
    /\ DOMAIN lastLoad.loaded = DOMAIN lastLoad.saved
    /\ \A k \in DOMAIN lastLoad.saved : lastLoad.loaded[k] = lastLoad.saved[k]

\* C10 (witness): a table with two keys, one of them holding a new name
\* after three others, was saved, read back and assigned
C10_Witness ==
  /\ lastLoad.some
  /\ DOMAIN lastLoad.saved = {".", "lib"}
  /\ Len(lastLoad.saved["."]) = 4
  /\ lastLoad.saved["lib"] = <<"z.ts">>
  /\ orderCache = lastLoad.saved
  /\ \A k \in DOMAIN lastLoad.saved : NoDup(lastLoad.saved[k])

\* ---- updateOrder and save
CmdKey == RelativeKey(cmd.folderUri)

\* C11 (theorem, SpecStore): when writeFile rejects during updateOrder(dir,
\* o), the failure is reported (one error message), the command goes on to
\* its end, and while no reload has assigned a table since, the table in
\* memory maps dir to o and every other key to the order it had before.
C11_WriteFailure ==
  (cmd.done /\ cmd.called /\ ~cmd.wrote) =>
    /\ cmd.errs = 1
    /\ ~cmd.reloaded =>
         /\ DOMAIN orderCache = DOMAIN cmd.table0 \cup {CmdKey}
         /\ orderCache[CmdKey] = cmd.order
         /\ \A k \in DOMAIN cmd.table0 \ {CmdKey} : orderCache[k] = cmd.table0[k]

\* C11 (witness): a rejected write after an update of the root order in a
\* table that also holds an order for lib
C11_Witness ==
  /\ cmd.done /\ cmd.called /\ ~cmd.wrote /\ ~cmd.reloaded
  /\ cmd.errs = 1
  /\ CmdKey = "."
  /\ Len(cmd.order0) = 2
  /\ orderCache = TableSet(RootTable(Append(cmd.order0, cmd.name)), "lib", <<"z.ts">>)
  /\ ~disk.exists \/ JSONparse(disk.text).val # orderCache

\* ---- init
Truncated == TextFile(<<Punct("{"), Str(".")>>)

\* C12 (theorem, SpecStore): every init() that resumes after its read
\* leaves the table empty when the file was missing or its text does not
\* parse, so that getOrder returns the empty array for every directory,
\* and leaves exactly the parsed table, whatever the table held before,
\* when the read and the parse succeeded.
C12_LoadFailsSoft ==
  [][\A d \in initData :
       (initData' = initData \ {d}) =>
         IF d.ok /\ JSONparse(d.text).ok
           THEN orderCache' = JSONparse(d.text).val
           ELSE /\ orderCache' = EmptyTable
                /\ \A dir \in Dirs : getOrder(orderCache', dir) = << >>]_vars

\* C12 (witness): an update was made in memory, its write was rejected,
\* and a reload that found the truncated file has emptied the table
C12_Witness ==
  /\ cmd.done /\ cmd.called /\ cmd.reloaded
  /\ disk = Truncated
  /\ initData = {} /\ ~initPending
  /\ orderCache = EmptyTable

\* ---- handleDrop: the batch
\* C13 (the claim, violated in SpecDrop): every order getOrder returns for
\* the directory of the drop while handleDrop is suspended inside the
\* batch (at readDirectory or at a rename) is the order from before the
\* drop or the final order of the batch.
C13_NoPartialOrder ==
  DropApplied => drop.seen \subseteq {drop.stored0, drop.order}

\* C14 (the claim, violated in SpecDrop): a handleDrop calls updateOrder at
\* most once, after every source has been processed, and not at all when
\* the order after the batch is the order the batch started from.
C14_WriteOnlyOnChange ==
  /\ drop.writes <= 1
  /\ drop.writes = 1 => drop.i > Len(drop.lines)
  /\ (DropApplied /\ drop.order = drop.work0) => drop.writes = 0

\* every line of the payload is an entry of the directory the drop works in
AllSiblings ==
  \A k \in 1..Len(drop.lines) :
    drop.lines[k].kind = "uri" /\ SameFolder(drop.lines[k].uri, drop.parentUri)

LineName(k) == basename(drop.lines[k].uri)

\* C15 (the claim, violated in SpecDrop): in a same-directory drop of
\* several entries onto a file or onto empty space, the dragged entries
\* stand in the resulting order in the relative order of the payload.
C15_PayloadOrderKept ==
  (DropApplied /\ AllSiblings /\ (~drop.target.some \/ IsCase1(drop.target))) =>
    \A a, b \in 1..Len(drop.lines) :
      (a < b /\ Includes(drop.order, LineName(a)) /\ Includes(drop.order, LineName(b)))
        => IndexOf(drop.order, LineName(a)) < IndexOf(drop.order, LineName(b))

\* what one line does to the order when its rename, if it needs one, succeeds
ApplyLine(order, sourceUri) ==
  LET fileName == basename(sourceUri)
      targetName == basename(drop.target.uri)
  IN  IF IsCase1(drop.target)
        THEN IF SameFolder(sourceUri, drop.parentUri)
               THEN InsertBefore(order, fileName, targetName).order
               ELSE InsertMoved(order, ToIndexOf(order, targetName), fileName)
      ELSE IF SameFolder(sourceUri, drop.parentUri)
        THEN MoveToEnd(order, fileName).order
      ELSE IF sourceUri # joinPath(drop.parentUri, fileName)
        THEN AppendMoved(order, fileName)
      ELSE order

RECURSIVE ApplyAll(_, _)
ApplyAll(order, lines) ==
  IF lines = << >> THEN order
  ELSE ApplyAll(ApplyLine(order, Head(lines).uri), Tail(lines))

\* the line does not parse, or the rename issued for it was rejected
LineFailed(line) ==
  \/ line.kind = "bad"
  \/ line.kind = "uri" /\ line.uri \in drop.renames \ drop.moved

FailedLines == {k \in 1..Len(drop.lines) : LineFailed(drop.lines[k])}
AppliedLines == SelectSeq(drop.lines, LAMBDA l : l.kind = "uri" /\ ~LineFailed(l))
WriteRejected == drop.writes = 1 /\ ~disk.exists

\* C16 (theorem, SpecDrop): when handleDrop has returned, every line was
\* processed; each line that does not parse or whose rename was rejected
\* was reported once and has left the order as it was, so the order is
\* the one the other lines alone give; and if any of them changed the
\* order, the table holds that order and it was written to the file.
C16_FailureIsolation ==
  drop.done =>
    /\ drop.i > Len(drop.lines)
    /\ drop.errs = Cardinality(FailedLines) + (IF WriteRejected THEN 1 ELSE 0)
    /\ drop.order = ApplyAll(drop.work0, AppliedLines)
    /\ drop.changed =>
         /\ drop.writes = 1
         /\ getOrder(orderCache, drop.parentUri) = drop.order
         /\ disk.exists =>
              getOrder(JSONparse(disk.text).val, drop.parentUri) = drop.order

\* C16 (witness): the rename of the first of two sources was rejected, the
\* second source was reordered, and the new order was written
C16_Witness ==
  /\ drop.done
  /\ Len(drop.lines) = 2
  /\ FailedLines = {1}
  /\ drop.lines[1].kind = "uri"
  /\ drop.errs = 1
  /\ drop.order # drop.work0
  /\ disk.exists
  /\ getOrder(JSONparse(disk.text).val, drop.parentUri) = drop.order

\* ---- newFile, newFolder, paste
\* C17 (theorem, SpecStore): once newFile, newFolder or paste has created
\* the entry n in directory d, and while no reload has assigned a table
\* since, the order stored for d is the previous one followed by n when n
\* was not in it and the previous one when it was; the order stored for
\* every other directory is as before.
C17_CreateAppends ==
  (cmd.created /\ ~cmd.reloaded) =>
    LET prev == getOrder(cmd.table0, cmd.folderUri)
    IN  /\ getOrder(orderCache, cmd.folderUri) =
             IF Includes(prev, cmd.name) THEN prev ELSE Append(prev, cmd.name)
        /\ cmd.called = ~Includes(prev, cmd.name)
        /\ \A d \in Dirs \ {cmd.folderUri} :
             getOrder(orderCache, d) = getOrder(cmd.table0, d)
        /\ joinPath(cmd.folderUri, cmd.name) \in fs

\* C17 (witness): paste of a.ts into the root, where a.ts exists, has
\* appended the name of the copy to a stored order of three names
C17_Witness ==
  /\ cmd.done /\ cmd.created /\ cmd.called /\ ~cmd.reloaded
  /\ cmd.kind = "paste"
  /\ cmd.name = "a copy 1.ts"
  /\ cmd.folderUri = RootUri
  /\ Len(cmd.order0) = 3
  /\ orderCache["."] = Append(cmd.order0, "a copy 1.ts")
  /\ "lib" \in DOMAIN orderCache

\* the table the order file holds
Persisted == LoadedTable(ReadFile)

\* C18 (the claim, violated in SpecStore): when updateOrder(dir, o) has
\* completed, the orders stored under every other key are the ones from
\* before it started, in the table in memory and, the write having
\* succeeded, in the order file, whatever init() calls ran meanwhile.
C18_UpdateFrame ==
  (cmd.done /\ cmd.called) =>
    \A d \in Dirs \ {cmd.folderUri} :
      /\ getOrder(cmd.table1, d) = getOrder(cmd.table0, d)
      /\ cmd.wrote => getOrder(Persisted, d) = getOrder(cmd.disk0, d)

\* every source of the payload is an entry of the directory the drop works in
SiblingsOnly ==
  \A k \in 1..Len(drop.lines) :
    drop.lines[k].kind = "uri" => SameFolder(drop.lines[k].uri, drop.parentUri)

Count(s, n) == Cardinality({k \in 1..Len(s) : s[k] = n})

\* C19 (theorem, SpecDrop): a handleDrop whose sources are all entries of
\* the directory it works in ends with a permutation of the order it
\* started from: each name as often as before, so none added, none
\* removed and none repeated, for every payload and every target.
C19_Permutation ==
  (DropApplied /\ SiblingsOnly) =>
    /\ Len(drop.order) = Len(drop.work0)
    /\ \A n \in AllNames : Count(drop.order, n) = Count(drop.work0, n)
    /\ NoDup(drop.order)
    /\ drop.renames = {}

\* C19 (witness): two siblings dropped onto a third in an order of four
\* names, which has changed
C19_Witness ==
  /\ drop.done /\ SiblingsOnly
  /\ Len(drop.lines) = 2
  /\ drop.lines[1].kind = "uri" /\ drop.lines[2].kind = "uri"
  /\ IsCase1(drop.target)
  /\ Len(drop.work0) = 4
  /\ drop.order # drop.work0
  /\ getOrder(orderCache, drop.parentUri) = drop.order

\* ---- the display after a drop
\* the names getChildren shows for a directory under a stored order
DisplayNames(order, dir) ==
  LET children == CHOOSE c \in TwoListings(fs, dir) : TRUE
      items == MergeListing(dir, children, order)
  IN  [k \in 1..Len(items) |-> basename(items[k].uri)]

Dragged == {LineName(k) : k \in {j \in 1..Len(drop.lines) : drop.lines[j].kind = "uri"}}

\* C20 (the claim, violated in SpecDrop): after a handleDrop whose sources
\* are entries of the directory it works in, the entries that were not
\* dragged are displayed in the same relative order as before the drop,
\* also when the stored order was empty or partial.
C20_OthersKeepPlace ==
  (drop.done /\ SiblingsOnly) =>
    SelectSeq(DisplayNames(getOrder(drop.table0, drop.parentUri), drop.parentUri),
              LAMBDA n : n \notin Dragged)
      = SelectSeq(DisplayNames(getOrder(orderCache, drop.parentUri), drop.parentUri),
                  LAMBDA n : n \notin Dragged)

====
